---- MODULE Spec2Model ----
(***************************************************************************)
(* Model of the firewall anomaly detector processor                        *)
(* (processor/firewall_anomaly_detector.go): the window store guarded by   *)
(* windowsMutex, the per-record processLog, extractFeatures and            *)
(* scoreAnomaly.                                                           *)
(*                                                                         *)
(* Several callers run processLog concurrently on one detector (pipeline   *)
(* threads).  Every critical section of windowsMutex is one atomic step;   *)
(* the code between two critical sections is attached to the step that     *)
(* follows it.  The reads of *WindowData that processLog performs outside  *)
(* the mutex (lines 532-557) are separate steps, so that they interleave   *)
(* with the updateWindow calls of other callers.                           *)
(*                                                                         *)
(* Numbers.  Metric values are integers (float64 of an int field).  A      *)
(* float64 that is a quotient is the pair [num, den] with den > 0, compared*)
(* by cross-multiplication.  std_dev is kept as its square, or as NaN.     *)
(* Scores are in tenths (0.3 is 3).  Time is in ticks; windowSeconds is    *)
(* the window duration in ticks.                                           *)
(***************************************************************************)
EXTENDS Integers, Sequences, FiniteSets, TLC

\* ------------------------------------------------------------ bounds ----
MaxNow     == 3      \* the wall clock stops here
MaxLogs    == 2      \* records handed to processLog in one run

\* ----------------------------------------------------- configuration ----
windowSeconds == 1            \* window_seconds, in ticks
defaultScoreThreshold == 7    \* score_threshold 0.7, in tenths
lowScoreThreshold == 2        \* score_threshold 0.2, in tenths

Callers == {"t1", "t2"}      \* the pipeline threads that call processLog
Times   == {0, 1, 2}          \* record timestamps, in any order
IPAddrs == {"10.0.0.1", "10.0.0.2"}
Vals    == {0, 2}

MetricFields == {"connection_count", "bytes_sent", "bytes_recv"}

\* log_source -> metric_field; "cisco.asa" is configured with a field name
\* processLog does not know, "juniper.srx" is not configured at all.
sources ==
  [s \in {"fortinet.firewall", "paloalto.firewall", "cisco.asa"} |->
     CASE s = "fortinet.firewall" -> "connection_count"
       [] s = "paloalto.firewall" -> "bytes_sent"
       [] OTHER                   -> "unknown_field"]

LogSources == DOMAIN sources \cup {"juniper.srx"}

anomalyTopic == "firewall-anomalies"
normalTopic  == "firewall-normal"

\* ------------------------------------------------------------ records ----
FirewallLog(src, ip, ts, cc, bs, br) ==
  [LogSource |-> src, SourceIP |-> ip, Timestamp |-> ts,
   ConnectionCount |-> cc, BytesSent |-> bs, BytesRecv |-> br]

\* The records a caller may be handed: any source, origin, timestamp; one of
\* the three metric fields carries a value of Vals, the others are omitted
\* (omitempty, decoded as 0).
Logs ==
  { FirewallLog(src, ip, ts,
                IF fld = "connection_count" THEN v ELSE 0,
                IF fld = "bytes_sent" THEN v ELSE 0,
                IF fld = "bytes_recv" THEN v ELSE 0) :
      src \in LogSources, ip \in IPAddrs, ts \in Times,
      fld \in MetricFields, v \in Vals }

WindowData(vals, ips, lastMean, start, end) ==
  [Values |-> vals, IPs |-> ips, LastMean |-> lastMean,
   StartTime |-> start, EndTime |-> end]

Nil == 0          \* the nil *WindowData / nil *service.Message
NoValues == << >>


\* ------------------------------------------------------------- state ----
VARIABLES
  scoreThreshold,     \* f.scoreThreshold, in tenths; set at construction
  now,                \* the wall clock read by time.Since
  windows,            \* f.windows: map windowKey -> *WindowData (a heap index)
  heap,               \* the WindowData objects by address; Nil once unreachable
  processedLogs,      \* counter processed_logs
  anomaliesDetected,  \* counter anomalies_detected
  windowsCreated,     \* counter windows_created
  pc,                 \* per caller: position inside processLog
  windowKey,          \* per caller: local windowKey (log.LogSource)
  metricField,        \* per caller: local metricField
  metricValue,        \* per caller: local metricValue
  originIP,           \* per caller: log.SourceIP, until its last use (updateWindow)
  logTime,            \* per caller: log.Timestamp, until its last use (updateWindow)
  window,             \* per caller: local window (pointer returned by getWindow)
  seenValues,         \* per caller: window.Values as read by extractFeatures
  pending,            \* per caller: result map and topic built before clearWindow
  features,           \* per caller: local features (the map of extractFeatures)
  anomalyScore,       \* per caller: local anomalyScore, in tenths
  keyOf,              \* history: the windowKey each heap object was created for
  emitted,            \* history: number of Decisions returned per heap object
  upserts,            \* history: per key, the values passed to updateWindow since
                      \*          the last clearWindow of the key
  origins,            \* history: per key, the origins passed to updateWindow
                      \*          since the last clearWindow of the key
  noSource,           \* history: records returned for a missing source mapping
  handed,             \* history: records handed to processLog
  anomalousEmitted,   \* history: Decisions returned with is_anomaly true
  flushedMean,        \* history: per key, mean_value of the last Decision, or NoMean
  running,            \* per caller: a call of Process is in progress
  logs,               \* per caller: local logs of Process, the records not yet
                      \*          handed to processLog
  results,            \* per caller: local results of Process
  returned,           \* per caller: what the last call of Process returned
  items,              \* history: per caller, what LRange gave its last call
  decoded,            \* history: list items that json.Unmarshal accepted
  calls               \* history: per caller, its calls of Process

vars == << scoreThreshold, now, windows, heap, processedLogs, anomaliesDetected, windowsCreated,
           pc, windowKey, metricField, metricValue, window, seenValues,
           pending, features, anomalyScore, keyOf, emitted, upserts, origins,
           noSource, handed, anomalousEmitted, flushedMean, originIP,
                 logTime, running,
           logs, results, returned, items, decoded, calls >>

\* the state of Process: its locals, its return value and their history
batchVars == << running, logs, results, returned, items, decoded, calls >>

\* --------------------------------------------------------- arithmetic ----
Rat(n, d) == [num |-> n, den |-> d]
Zero == Rat(0, 1)
NoMean == Rat(0, 0)     \* no Decision yet (flushedMean)
RatEq(a, b) == a.num * b.den = b.num * a.den
Abs(x) == IF x < 0 THEN -x ELSE x

\* The square root of a non-negative quotient, or NaN (0/0 and its root).
Root(q) == [nan |-> FALSE, sq |-> q]
NaN == [nan |-> TRUE, sq |-> Zero]

RECURSIVE Sum(_)
Sum(s) == IF s = << >> THEN 0 ELSE Head(s) + Sum(Tail(s))

RECURSIVE SumSq(_)
SumSq(s) == IF s = << >> THEN 0 ELSE Head(s) * Head(s) + SumSq(Tail(s))

\* a maximum whose running value starts at 0 instead of the first sample
MaxOfFromZero(s) ==
  CHOOSE m \in {0} \cup {s[i] : i \in DOMAIN s} :
    m >= 0 /\ \A i \in DOMAIN s : m >= s[i]

RECURSIVE MaxOf(_)
MaxOf(s) == IF Len(s) = 1 THEN s[1]
            ELSE LET m == MaxOf(Tail(s)) IN IF Head(s) > m THEN Head(s) ELSE m

RECURSIVE MinOf(_)
MinOf(s) == IF Len(s) = 1 THEN s[1]
            ELSE LET m == MinOf(Tail(s)) IN IF Head(s) < m THEN Head(s) ELSE m

\* stat.Mean(x, nil): sum / len
Mean(x) == Rat(Sum(x), Len(x))

\* a standard deviation that divides by the number of samples
StdDevPopulation(x) ==
  LET n == Len(x) IN
  Root(Rat(n * SumSq(x) - Sum(x) * Sum(x), n * n))

\* stat.StdDev(x, nil): the square root of the unbiased sample variance,
\* sum((x_i - mean)^2) / (len - 1) = (n*sum(x^2) - sum(x)^2) / (n*(n-1));
\* for one sample the quotient is 0/0.
StdDev(x) ==
  LET n == Len(x) IN
  IF n = 1 THEN NaN
  ELSE Root(Rat(n * SumSq(x) - Sum(x) * Sum(x), n * (n - 1)))

\* ------------------------------------------------------- window store ----
getWindow(key) ==
  IF key \in DOMAIN windows THEN windows[key] ELSE Nil

\* clearWindow that leaves the map as it is.
clearWindowKeeps(key) == windows

\* clearWindow that empties the whole map.
clearWindowAll(key) == << >>

clearWindow(key) ==
  [k \in DOMAIN windows \ {key} |-> windows[k]]

\* updateWindow that replaces the window of the key on every call.
updateWindowAlwaysNew(key, value, sourceIP, timestamp) ==
  LET w   == Len(heap) + 1
      new == WindowData(<< value >>, {sourceIP}, 0, timestamp,
                        timestamp + windowSeconds)
  IN [windows |-> [k \in DOMAIN windows \cup {key} |->
                     IF k = key THEN w ELSE windows[k]],
      heap    |-> Append(heap, new),
      created |-> TRUE]

\* updateWindow that counts a created window on every call
updateWindowCountsEvery(key, value, sourceIP, timestamp) ==
  LET exists == key \in DOMAIN windows
      w      == IF exists THEN windows[key] ELSE Len(heap) + 1
      old    == IF exists THEN heap[w]
                ELSE WindowData(NoValues, {}, 0, timestamp, timestamp + windowSeconds)
      added  == [old EXCEPT !.Values = Append(@, value),
                            !.IPs = @ \cup {sourceIP}]
      new    == IF timestamp > added.EndTime
                THEN [added EXCEPT !.EndTime = timestamp + windowSeconds]
                ELSE added
  IN [windows |-> [k \in DOMAIN windows \cup {key} |->
                     IF k = key THEN w ELSE windows[k]],
      heap    |-> IF exists THEN [heap EXCEPT ![w] = new] ELSE Append(heap, new),
      created |-> TRUE]

\* updateWindow that keeps only the origin of the last record
updateWindowLastIP(key, value, sourceIP, timestamp) ==
  LET exists == key \in DOMAIN windows
      w      == IF exists THEN windows[key] ELSE Len(heap) + 1
      old    == IF exists THEN heap[w]
                ELSE WindowData(NoValues, {}, 0, timestamp, timestamp + windowSeconds)
      added  == [old EXCEPT !.Values = Append(@, value),
                            !.IPs = {sourceIP}]
      new    == IF timestamp > added.EndTime
                THEN [added EXCEPT !.EndTime = timestamp + windowSeconds]
                ELSE added
  IN [windows |-> [k \in DOMAIN windows \cup {key} |->
                     IF k = key THEN w ELSE windows[k]],
      heap    |-> IF exists THEN [heap EXCEPT ![w] = new] ELSE Append(heap, new),
      created |-> ~exists]

\* updateWindow that puts the new sample in front of the earlier ones
updateWindowPrepends(key, value, sourceIP, timestamp) ==
  LET exists == key \in DOMAIN windows
      w      == IF exists THEN windows[key] ELSE Len(heap) + 1
      old    == IF exists THEN heap[w]
                ELSE WindowData(NoValues, {}, 0, timestamp, timestamp + windowSeconds)
      added  == [old EXCEPT !.Values = << value >> \o @,
                            !.IPs = @ \cup {sourceIP}]
      new    == IF timestamp > added.EndTime
                THEN [added EXCEPT !.EndTime = timestamp + windowSeconds]
                ELSE added
  IN [windows |-> [k \in DOMAIN windows \cup {key} |->
                     IF k = key THEN w ELSE windows[k]],
      heap    |-> IF exists THEN [heap EXCEPT ![w] = new] ELSE Append(heap, new),
      created |-> ~exists]

\* updateWindow that moves the end on every record, not only on a later one
updateWindowMovesEnd(key, value, sourceIP, timestamp) ==
  LET exists == key \in DOMAIN windows
      w      == IF exists THEN windows[key] ELSE Len(heap) + 1
      old    == IF exists THEN heap[w]
                ELSE WindowData(NoValues, {}, 0, timestamp, timestamp + windowSeconds)
      added  == [old EXCEPT !.Values = Append(@, value),
                            !.IPs = @ \cup {sourceIP}]
      new    == [added EXCEPT !.EndTime = timestamp + windowSeconds]
  IN [windows |-> [k \in DOMAIN windows \cup {key} |->
                     IF k = key THEN w ELSE windows[k]],
      heap    |-> IF exists THEN [heap EXCEPT ![w] = new] ELSE Append(heap, new),
      created |-> ~exists]

\* updateWindow that restarts the window at every record
updateWindowRestarts(key, value, sourceIP, timestamp) ==
  LET exists == key \in DOMAIN windows
      w      == IF exists THEN windows[key] ELSE Len(heap) + 1
      old    == IF exists THEN heap[w]
                ELSE WindowData(NoValues, {}, 0, timestamp, timestamp + windowSeconds)
      added  == [old EXCEPT !.Values = Append(@, value),
                            !.IPs = @ \cup {sourceIP},
                            !.StartTime = timestamp]
      new    == IF timestamp > added.EndTime
                THEN [added EXCEPT !.EndTime = timestamp + windowSeconds]
                ELSE added
  IN [windows |-> [k \in DOMAIN windows \cup {key} |->
                     IF k = key THEN w ELSE windows[k]],
      heap    |-> IF exists THEN [heap EXCEPT ![w] = new] ELSE Append(heap, new),
      created |-> ~exists]

\* updateWindow that moves the end already for a record at the end
updateWindowExtendsAtEnd(key, value, sourceIP, timestamp) ==
  LET exists == key \in DOMAIN windows
      w      == IF exists THEN windows[key] ELSE Len(heap) + 1
      old    == IF exists THEN heap[w]
                ELSE WindowData(NoValues, {}, 0, timestamp, timestamp + windowSeconds)
      added  == [old EXCEPT !.Values = Append(@, value),
                            !.IPs = @ \cup {sourceIP}]
      new    == IF timestamp >= added.EndTime
                THEN [added EXCEPT !.EndTime = timestamp + windowSeconds]
                ELSE added
  IN [windows |-> [k \in DOMAIN windows \cup {key} |->
                     IF k = key THEN w ELSE windows[k]],
      heap    |-> IF exists THEN [heap EXCEPT ![w] = new] ELSE Append(heap, new),
      created |-> ~exists]

\* updateWindow that opens a window with a baseline carried over
updateWindowCarriesBaseline(key, value, sourceIP, timestamp) ==
  LET exists == key \in DOMAIN windows
      w      == IF exists THEN windows[key] ELSE Len(heap) + 1
      old    == IF exists THEN heap[w]
                ELSE WindowData(NoValues, {}, 1, timestamp, timestamp + windowSeconds)
      added  == [old EXCEPT !.Values = Append(@, value),
                            !.IPs = @ \cup {sourceIP}]
      new    == IF timestamp > added.EndTime
                THEN [added EXCEPT !.EndTime = timestamp + windowSeconds]
                ELSE added
  IN [windows |-> [k \in DOMAIN windows \cup {key} |->
                     IF k = key THEN w ELSE windows[k]],
      heap    |-> IF exists THEN [heap EXCEPT ![w] = new] ELSE Append(heap, new),
      created |-> ~exists]

\* updateWindow that opens a window without putting the record into it
updateWindowOpensEmpty(key, value, sourceIP, timestamp) ==
  LET exists == key \in DOMAIN windows
      w      == IF exists THEN windows[key] ELSE Len(heap) + 1
      old    == IF exists THEN heap[w]
                ELSE WindowData(NoValues, {}, 0, timestamp, timestamp + windowSeconds)
      added  == IF exists
                THEN [old EXCEPT !.Values = Append(@, value),
                                 !.IPs = @ \cup {sourceIP}]
                ELSE old
      new    == IF timestamp > added.EndTime
                THEN [added EXCEPT !.EndTime = timestamp + windowSeconds]
                ELSE added
  IN [windows |-> [k \in DOMAIN windows \cup {key} |->
                     IF k = key THEN w ELSE windows[k]],
      heap    |-> IF exists THEN [heap EXCEPT ![w] = new] ELSE Append(heap, new),
      created |-> ~exists]

\* updateWindow that records the origin in the window of every key
updateWindowSharesIP(key, value, sourceIP, timestamp) ==
  LET exists == key \in DOMAIN windows
      w      == IF exists THEN windows[key] ELSE Len(heap) + 1
      old    == IF exists THEN heap[w]
                ELSE WindowData(NoValues, {}, 0, timestamp, timestamp + windowSeconds)
      added  == [old EXCEPT !.Values = Append(@, value),
                            !.IPs = @ \cup {sourceIP}]
      new    == IF timestamp > added.EndTime
                THEN [added EXCEPT !.EndTime = timestamp + windowSeconds]
                ELSE added
      stored == {windows[k] : k \in DOMAIN windows}
      shared == [a \in DOMAIN heap |->
                   IF a = w THEN new
                   ELSE IF a \in stored
                        THEN [heap[a] EXCEPT !.IPs = @ \cup {sourceIP}]
                        ELSE heap[a]]
  IN [windows |-> [k \in DOMAIN windows \cup {key} |->
                     IF k = key THEN w ELSE windows[k]],
      heap    |-> IF exists THEN shared ELSE Append(shared, new),
      created |-> ~exists]

\* The store after updateWindow: the map, the heap, and whether a window
\* was created (windowsCreated.Incr).
updateWindow(key, value, sourceIP, timestamp) ==
  LET exists == key \in DOMAIN windows
      w      == IF exists THEN windows[key] ELSE Len(heap) + 1
      old    == IF exists THEN heap[w]
                ELSE WindowData(NoValues, {}, 0, timestamp, timestamp + windowSeconds)
      added  == [old EXCEPT !.Values = Append(@, value),
                            !.IPs = @ \cup {sourceIP}]
      new    == IF timestamp > added.EndTime
                THEN [added EXCEPT !.EndTime = timestamp + windowSeconds]
                ELSE added
  IN [windows |-> [k \in DOMAIN windows \cup {key} |->
                     IF k = key THEN w ELSE windows[k]],
      heap    |-> IF exists THEN [heap EXCEPT ![w] = new] ELSE Append(heap, new),
      created |-> ~exists]

\* Garbage collection: an object that neither the map nor a caller's local
\* window refers to can never be read again.
Collect(h, map, locals) ==
  [a \in DOMAIN h |->
     IF (\E k \in DOMAIN map : map[k] = a) \/ (\E c \in Callers : locals[c] = a)
     THEN h[a] ELSE Nil]

\* ------------------------------------------------------ processLog parts ----
\* a lookup that falls back to the default metric of the configuration
sourcesLookupDefault(logSource) ==
  IF logSource \in DOMAIN sources
  THEN [metricField |-> sources[logSource], exists |-> TRUE]
  ELSE [metricField |-> "connection_count", exists |-> TRUE]

\* metricField, exists := f.sources[log.LogSource]
sourcesLookup(logSource) ==
  IF logSource \in DOMAIN sources
  THEN [metricField |-> sources[logSource], exists |-> TRUE]
  ELSE [metricField |-> "", exists |-> FALSE]

\* the switch on metricField: the value, or unknown (processLog returns)
extractMetric(l, field) ==
  CASE field = "connection_count" -> [known |-> TRUE, value |-> l.ConnectionCount]
    [] field = "bytes_sent"       -> [known |-> TRUE, value |-> l.BytesSent]
    [] field = "bytes_recv"       -> [known |-> TRUE, value |-> l.BytesRecv]
    [] OTHER                      -> [known |-> FALSE, value |-> 0]

\* the completeness test with a strict comparison
windowCompleteStrict(endTime, t) == t - endTime > windowSeconds

\* not (time.Since(window.EndTime) < windowSeconds)
windowComplete(endTime, t) == ~(t - endTime < windowSeconds)


\* ---------------------------------------------------- extractFeatures ----
\* the change computed against any baseline but 0
percentChangeAnyBaseline(mean, lastMean) ==
  IF lastMean # 0
  THEN Rat(100 * (mean.num - lastMean * mean.den), lastMean * mean.den)
  ELSE Zero

\* percentChange := 0.0
\* if window.LastMean > 0 { ((mean - window.LastMean) / window.LastMean) * 100 }
percentChangeOf(mean, lastMean) ==
  IF lastMean > 0
  THEN Rat(100 * (mean.num - lastMean * mean.den), lastMean * mean.den)
  ELSE Zero

\* the ratio computed for any mean but 0
peakToMeanRatioAnyMean(max, mean) ==
  IF mean.num # 0 THEN Rat(max * mean.den, mean.num) ELSE Zero

\* peakToMeanRatio := 0.0; if mean > 0 { max / mean }
peakToMeanRatioOf(max, mean) ==
  IF mean.num > 0 THEN Rat(max * mean.den, mean.num) ELSE Zero

\* a count that only tells whether there is an origin
countIPsAtMostOne(ips) == IF ips = {} THEN 0 ELSE 1

\* uniqueIPs := float64(len(window.IPs))
countIPs(ips) == Cardinality(ips)

\* the map for no samples with what the statistics give on an empty slice
emptyFeaturesNaN ==
  [mean_value |-> Zero, std_dev |-> NaN, max_value |-> 0,
   min_value |-> 0, percent_change |-> Zero, unique_ips |-> 0,
   peak_to_mean_ratio |-> Zero]

\* the map returned when len(window.Values) == 0
emptyFeatures ==
  [mean_value |-> Zero, std_dev |-> Root(Zero), max_value |-> 0,
   min_value |-> 0, percent_change |-> Zero, unique_ips |-> 0,
   peak_to_mean_ratio |-> Zero]

extractFeatures(w) ==
  IF Len(w.Values) = 0
  THEN emptyFeatures
  ELSE
    LET mean   == Mean(w.Values)
        stdDev == StdDev(w.Values)
        max    == MaxOf(w.Values)
        min    == MinOf(w.Values)
        percentChange == percentChangeOf(mean, w.LastMean)
        uniqueIPs == countIPs(w.IPs)
        peakToMeanRatio == peakToMeanRatioOf(max, mean)
    IN [mean_value |-> mean, std_dev |-> stdDev, max_value |-> max,
        min_value |-> min, percent_change |-> percentChange,
        unique_ips |-> uniqueIPs, peak_to_mean_ratio |-> peakToMeanRatio]

\* features["std_dev"] > features["mean_value"]; a NaN compares false
StdDevAboveMean(sd, mean) ==
  /\ ~sd.nan
  /\ \/ mean.num < 0
     \/ sd.sq.num * mean.den * mean.den > mean.num * mean.num * sd.sq.den

\* ------------------------------------------------------- scoreAnomaly ----
\* the scorer with every comparison inclusive
scoreAnomalyInclusive(feats) ==
  LET s1 == IF Abs(feats.percent_change.num) >= 50 * feats.percent_change.den
            THEN 3 ELSE 0
      s2 == IF feats.peak_to_mean_ratio.num >= 3 * feats.peak_to_mean_ratio.den
            THEN 2 ELSE 0
      s3 == IF ~feats.std_dev.nan
               /\ feats.std_dev.sq.num * feats.mean_value.den * feats.mean_value.den
                    >= feats.mean_value.num * feats.mean_value.num
                         * feats.std_dev.sq.den
            THEN 2 ELSE 0
      s4 == IF feats.unique_ips >= 100 THEN 3 ELSE 0
      total == s1 + s2 + s3 + s4
  IN IF total < 10 THEN total ELSE 10

\* the scorer with each weight assigned instead of added
scoreAnomalyOverwrites(feats) ==
  LET s1 == IF Abs(feats.percent_change.num) > 50 * feats.percent_change.den
            THEN 3 ELSE 0
      s2 == IF feats.peak_to_mean_ratio.num > 3 * feats.peak_to_mean_ratio.den
            THEN 2 ELSE s1
      s3 == IF StdDevAboveMean(feats.std_dev, feats.mean_value) THEN 2 ELSE s2
      s4 == IF feats.unique_ips > 100 THEN 3 ELSE s3
  IN IF s4 < 10 THEN s4 ELSE 10

scoreAnomaly(feats) ==
  LET s1 == IF Abs(feats.percent_change.num) > 50 * feats.percent_change.den
            THEN 3 ELSE 0
      s2 == IF feats.peak_to_mean_ratio.num > 3 * feats.peak_to_mean_ratio.den
            THEN 2 ELSE 0
      s3 == IF StdDevAboveMean(feats.std_dev, feats.mean_value) THEN 2 ELSE 0
      s4 == IF feats.unique_ips > 100 THEN 3 ELSE 0
      total == s1 + s2 + s3 + s4
  IN IF total < 10 THEN total ELSE 10

\* the classification with a strict comparison
isAnomalyAbove(score, threshold) == score > threshold

\* isAnomaly := anomalyScore >= f.scoreThreshold
isAnomalyAt(score, threshold) == score >= threshold

\* the topic left at its initial value
topicOfNormal(isAnomaly) == normalTopic

\* topic := f.normalTopic; if isAnomaly { topic = f.anomalyTopic }
topicOf(isAnomaly) == IF isAnomaly THEN anomalyTopic ELSE normalTopic

\* Incr(n) of a metrics counter
Incr(counter, n) == counter + n

\* the anomalies counter incremented for every Decision
countAnomalyAlways(counter, isAnomaly) == Incr(counter, 1)

\* if isAnomaly { ...; f.anomaliesDetected.Incr(1) }
countAnomaly(counter, isAnomaly) ==
  IF isAnomaly THEN Incr(counter, 1) ELSE counter

\* The result map of processLog together with the "topic" metadata.
Decision(w, key, feats, score, isAnomaly, field, value) ==
  [timestamp |-> w.EndTime, log_source |-> key, window_start |-> w.StartTime,
   window_end |-> w.EndTime, anomaly_score |-> score,
   is_anomaly |-> isAnomaly, reason |-> "hike_rate_detected",
   features |-> feats, metric_field |-> field, metric_value |-> value,
   topic |-> topicOf(isAnomaly)]

\* -------------------------------------------------------------- Init ----
\* what Process returns: the batch of result messages and the error
Returned(batch, err) == [err |-> err, results |-> batch]

\* What redisClient.LRange(...).Result() gives: the list, or a failure.
LRange(result, err) == [err |-> err, result |-> result]

\* No call of Process is in progress and none has returned.
NoProcess ==
  /\ running = [c \in Callers |-> FALSE]
  /\ logs = [c \in Callers |-> << >>]
  /\ results = [c \in Callers |-> << >>]
  /\ returned = [c \in Callers |-> Returned(<< >>, FALSE)]
  /\ items = [c \in Callers |-> LRange(<< >>, FALSE)]
  /\ decoded = 0
  /\ calls = [c \in Callers |-> 0]

Init ==
  /\ scoreThreshold = defaultScoreThreshold
  /\ now = 0
  /\ windows = << >>
  /\ heap = << >>
  /\ processedLogs = 0
  /\ anomaliesDetected = 0
  /\ windowsCreated = 0
  /\ pc = [c \in Callers |-> "idle"]
  /\ windowKey = [c \in Callers |-> ""]
  /\ metricField = [c \in Callers |-> ""]
  /\ metricValue = [c \in Callers |-> 0]
  /\ originIP = [c \in Callers |-> ""]
  /\ logTime = [c \in Callers |-> 0]
  /\ window = [c \in Callers |-> Nil]
  /\ seenValues = [c \in Callers |-> NoValues]
  /\ pending = [c \in Callers |-> Nil]
  /\ features = [c \in Callers |-> Nil]
  /\ anomalyScore = [c \in Callers |-> 0]
  /\ keyOf = << >>
  /\ emitted = << >>
  /\ upserts = [k \in LogSources |-> NoValues]
  /\ origins = [k \in LogSources |-> {}]
  /\ noSource = 0
  /\ handed = 0
  /\ anomalousEmitted = 0
  /\ flushedMean = [k \in LogSources |-> NoMean]
  /\ NoProcess

\* ------------------------------------------------------------ actions ----
\* The wall clock advances.
Tick ==
  /\ now < MaxNow
  /\ now' = now + 1
  /\ UNCHANGED << scoreThreshold, windows, heap, processedLogs,
                  anomaliesDetected, windowsCreated, pc, windowKey,
                  metricField, metricValue, originIP,
                  logTime, window, seenValues,
                  pending, features, anomalyScore, keyOf, emitted, upserts,
                  origins, noSource, handed, anomalousEmitted, flushedMean >>
  /\ UNCHANGED batchVars

\* processLog returns: the locals of the call are gone.  A step that returns
\* a Decision is ClearAndReturn, and the Decision is pending[c]; every other
\* return is "nil, nil".
Return(c) ==
  /\ pc' = [pc EXCEPT ![c] = "idle"]
  /\ windowKey' = [windowKey EXCEPT ![c] = ""]
  /\ metricField' = [metricField EXCEPT ![c] = ""]
  /\ metricValue' = [metricValue EXCEPT ![c] = 0]
  /\ originIP' = [originIP EXCEPT ![c] = ""]
  /\ logTime' = [logTime EXCEPT ![c] = 0]
  /\ window' = [window EXCEPT ![c] = Nil]
  /\ seenValues' = [seenValues EXCEPT ![c] = NoValues]
  /\ pending' = [pending EXCEPT ![c] = Nil]
  /\ features' = [features EXCEPT ![c] = Nil]
  /\ anomalyScore' = [anomalyScore EXCEPT ![c] = 0]

\* processLog counting the record only once its metric is resolved
ProcessLogStartCountsLate(c, l) ==
  /\ pc[c] = "idle"
  /\ handed' = handed + 1
  /\ LET lk == sourcesLookup(l.LogSource)
         mv == extractMetric(l, lk.metricField)
         up == updateWindow(l.LogSource, mv.value, l.SourceIP, l.Timestamp)
     IN IF ~lk.exists \/ ~mv.known
        THEN /\ Return(c)
             /\ processedLogs' = processedLogs
             /\ UNCHANGED << windows, heap, windowsCreated, keyOf, emitted,
                             upserts, origins >>
        ELSE /\ processedLogs' = Incr(processedLogs, 1)
             /\ windows' = up.windows
             /\ heap' = up.heap
             /\ windowsCreated' = IF up.created THEN Incr(windowsCreated, 1)
                                  ELSE windowsCreated
             /\ keyOf' = IF up.created THEN Append(keyOf, l.LogSource) ELSE keyOf
             /\ emitted' = IF up.created THEN Append(emitted, 0) ELSE emitted
             /\ upserts' = [upserts EXCEPT ![l.LogSource] = Append(@, mv.value)]
             /\ origins' = [origins EXCEPT ![l.LogSource] = @ \cup {l.SourceIP}]
             /\ pc' = [pc EXCEPT ![c] = "check"]
             /\ windowKey' = [windowKey EXCEPT ![c] = l.LogSource]
             /\ metricField' = [metricField EXCEPT ![c] = lk.metricField]
             /\ metricValue' = [metricValue EXCEPT ![c] = mv.value]
             /\ originIP' = [originIP EXCEPT ![c] = l.SourceIP]
             /\ logTime' = [logTime EXCEPT ![c] = l.Timestamp]
             /\ UNCHANGED << window, seenValues, pending, features,
                             anomalyScore >>
  /\ noSource' = IF l.LogSource \in DOMAIN sources THEN noSource
                  ELSE noSource + 1
  /\ UNCHANGED << scoreThreshold, now, anomaliesDetected, anomalousEmitted,
                  flushedMean >>

\* processLog from its entry through updateWindow: count the record, resolve
\* the metric, return early when it cannot be resolved, else upsert.
ProcessLogStart(c, l) ==
  /\ pc[c] = "idle"
  /\ handed' = handed + 1
  /\ processedLogs' = Incr(processedLogs, 1)
  /\ LET lk == sourcesLookup(l.LogSource)
         mv == extractMetric(l, lk.metricField)
         up == updateWindow(l.LogSource, mv.value, l.SourceIP, l.Timestamp)
     IN IF ~lk.exists \/ ~mv.known
        THEN /\ Return(c)
             /\ UNCHANGED << windows, heap, windowsCreated, keyOf, emitted,
                             upserts, origins >>
        ELSE /\ windows' = up.windows
             /\ heap' = up.heap
             /\ windowsCreated' = IF up.created THEN Incr(windowsCreated, 1)
                                  ELSE windowsCreated
             /\ keyOf' = IF up.created THEN Append(keyOf, l.LogSource) ELSE keyOf
             /\ emitted' = IF up.created THEN Append(emitted, 0) ELSE emitted
             /\ upserts' = [upserts EXCEPT ![l.LogSource] = Append(@, mv.value)]
             /\ origins' = [origins EXCEPT ![l.LogSource] = @ \cup {l.SourceIP}]
             /\ pc' = [pc EXCEPT ![c] = "check"]
             /\ windowKey' = [windowKey EXCEPT ![c] = l.LogSource]
             /\ metricField' = [metricField EXCEPT ![c] = lk.metricField]
             /\ metricValue' = [metricValue EXCEPT ![c] = mv.value]
             /\ originIP' = [originIP EXCEPT ![c] = l.SourceIP]
             /\ logTime' = [logTime EXCEPT ![c] = l.Timestamp]
             /\ UNCHANGED << window, seenValues, pending, features,
                             anomalyScore >>
  /\ noSource' = IF l.LogSource \in DOMAIN sources THEN noSource
                  ELSE noSource + 1
  /\ UNCHANGED << scoreThreshold, now, anomaliesDetected, anomalousEmitted,
                  flushedMean >>

\* A record reaches the detector: the loop of Process hands it to processLog.
HandLog(c, l) ==
  /\ handed < MaxLogs
  /\ ProcessLogStart(c, l)
  /\ UNCHANGED batchVars

\* getWindow and the completeness test on window.EndTime.
CheckWindow(c) ==
  /\ pc[c] = "check"
  /\ LET w == getWindow(windowKey[c])
     IN IF w = Nil \/ ~windowComplete(heap[w].EndTime, now)
        THEN Return(c)
        ELSE /\ window' = [window EXCEPT ![c] = w]
             /\ pc' = [pc EXCEPT ![c] = "extract"]
             /\ originIP' = [originIP EXCEPT ![c] = ""]
             /\ logTime' = [logTime EXCEPT ![c] = 0]
             /\ UNCHANGED << windowKey, metricField, metricValue,
                             seenValues, pending, features, anomalyScore >>
  /\ UNCHANGED << scoreThreshold, now, windows, heap, processedLogs,
                  anomaliesDetected, windowsCreated, keyOf, emitted, upserts,
                  origins, noSource, handed, anomalousEmitted, flushedMean >>
  /\ UNCHANGED batchVars

\* extractFeatures taking the samples out of the window as it reads them
ReadValuesDrains(c) ==
  /\ pc[c] = "extract"
  /\ seenValues' = [seenValues EXCEPT ![c] = heap[window[c]].Values]
  /\ heap' = [heap EXCEPT ![window[c]].Values = NoValues]
  /\ pc' = [pc EXCEPT ![c] = "build"]
  /\ UNCHANGED << scoreThreshold, now, windows, processedLogs,
                  anomaliesDetected, windowsCreated, windowKey, metricField,
                  metricValue, originIP,
                  logTime, window, pending, features,
                  anomalyScore, keyOf, emitted, upserts, origins, noSource,
                  handed, anomalousEmitted, flushedMean >>
  /\ UNCHANGED batchVars

\* extractFeatures reads window.Values (no lock is held).
ReadValues(c) ==
  /\ pc[c] = "extract"
  /\ seenValues' = [seenValues EXCEPT ![c] = heap[window[c]].Values]
  /\ pc' = [pc EXCEPT ![c] = "build"]
  /\ UNCHANGED << scoreThreshold, now, windows, heap, processedLogs,
                  anomaliesDetected, windowsCreated, windowKey, metricField,
                  metricValue, originIP,
                  logTime, window, pending, features,
                  anomalyScore, keyOf, emitted, upserts, origins, noSource,
                  handed, anomalousEmitted, flushedMean >>
  /\ UNCHANGED batchVars

\* The rest of extractFeatures (LastMean, IPs), scoreAnomaly, the result map
\* (StartTime, EndTime), the topic and the anomalies counter.
BuildResult(c) ==
  /\ pc[c] = "build"
  /\ LET w         == [heap[window[c]] EXCEPT !.Values = seenValues[c]]
         feats     == extractFeatures(w)
         score     == scoreAnomaly(feats)
         isAnomaly == isAnomalyAt(score, scoreThreshold)
     IN /\ features' = [features EXCEPT ![c] = feats]
        /\ anomalyScore' = [anomalyScore EXCEPT ![c] = score]
        /\ pending' = [pending EXCEPT ![c] =
                         Decision(w, windowKey[c], feats, score,
                                  isAnomaly, metricField[c], metricValue[c])]
        /\ anomaliesDetected' = countAnomaly(anomaliesDetected, isAnomaly)
  /\ pc' = [pc EXCEPT ![c] = "clear"]
  /\ UNCHANGED << scoreThreshold, now, windows, heap, processedLogs,
                  windowsCreated, windowKey, metricField, metricValue,
                  originIP,
                  logTime, window, seenValues, keyOf, emitted, upserts,
                  origins, noSource, handed, anomalousEmitted, flushedMean >>
  /\ UNCHANGED batchVars

\* clearWindow and the return of the result message.
ClearAndReturn(c) ==
  /\ pc[c] = "clear"
  /\ windows' = clearWindow(windowKey[c])
  /\ Return(c)
  /\ heap' = Collect(heap, windows', window')
  /\ emitted' = [emitted EXCEPT ![window[c]] = @ + 1]
  /\ upserts' = [upserts EXCEPT ![windowKey[c]] = NoValues]
  /\ origins' = [origins EXCEPT ![windowKey[c]] = {}]
  /\ anomalousEmitted' = IF pending[c].is_anomaly THEN anomalousEmitted + 1
                          ELSE anomalousEmitted
  /\ flushedMean' = [flushedMean EXCEPT ![windowKey[c]] =
                       pending[c].features.mean_value]
  /\ UNCHANGED << scoreThreshold, now, processedLogs, anomaliesDetected,
                  windowsCreated, keyOf, noSource, handed >>

\* The caller of processLog takes the Decision.
TakeResult(c) ==
  /\ ClearAndReturn(c)
  /\ UNCHANGED batchVars

Next ==
  \/ Tick
  \/ \E c \in Callers : \E l \in Logs : HandLog(c, l)
  \/ \E c \in Callers : CheckWindow(c)
  \/ \E c \in Callers : ReadValues(c)
  \/ \E c \in Callers : BuildResult(c)
  \/ \E c \in Callers : TakeResult(c)

Spec == Init /\ [][Next]_vars


\* A detector configured with score_threshold 0.2: two samples 0 and 2 have a
\* deviation above their mean, which is then enough for an anomaly.
InitLowThreshold ==
  /\ scoreThreshold = lowScoreThreshold
  /\ now = 0
  /\ windows = << >>
  /\ heap = << >>
  /\ processedLogs = 0
  /\ anomaliesDetected = 0
  /\ windowsCreated = 0
  /\ pc = [c \in Callers |-> "idle"]
  /\ windowKey = [c \in Callers |-> ""]
  /\ metricField = [c \in Callers |-> ""]
  /\ metricValue = [c \in Callers |-> 0]
  /\ originIP = [c \in Callers |-> ""]
  /\ logTime = [c \in Callers |-> 0]
  /\ window = [c \in Callers |-> Nil]
  /\ seenValues = [c \in Callers |-> NoValues]
  /\ pending = [c \in Callers |-> Nil]
  /\ features = [c \in Callers |-> Nil]
  /\ anomalyScore = [c \in Callers |-> 0]
  /\ keyOf = << >>
  /\ emitted = << >>
  /\ upserts = [k \in LogSources |-> NoValues]
  /\ origins = [k \in LogSources |-> {}]
  /\ noSource = 0
  /\ handed = 0
  /\ anomalousEmitted = 0
  /\ flushedMean = [k \in LogSources |-> NoMean]
  /\ NoProcess

SpecLowThreshold == InitLowThreshold /\ [][Next]_vars

\* ------------------------------------------------ one busy source key ----
\* The detector receiving the records of one source only, so that more
\* records fit: the key's window is flushed and opened again while a caller
\* is still between its updateWindow and its getWindow.
MaxKeyLogs == 3
OneKeyLogs ==
  { FirewallLog("fortinet.firewall", ip, ts, v, 0, 0) :
      ip \in IPAddrs, ts \in Times, v \in Vals }

HandKeyLog(c, l) ==
  /\ handed < MaxKeyLogs
  /\ ProcessLogStart(c, l)
  /\ UNCHANGED batchVars

NextOneKey ==
  \/ Tick
  \/ \E c \in Callers : \E l \in OneKeyLogs : HandKeyLog(c, l)
  \/ \E c \in Callers : CheckWindow(c)
  \/ \E c \in Callers : ReadValues(c)
  \/ \E c \in Callers : BuildResult(c)
  \/ \E c \in Callers : TakeResult(c)

SpecOneKey == Init /\ [][NextOneKey]_vars

\* ------------------------------------------------- Process on a batch ----
\* Process reads the whole Redis list, decodes it item by item and hands
\* the decoded records to processLog one after the other.
MaxCalls == 2
MaxBatch == 2

\* The callers of Process.
Readers == {"t1"}

\* The records the list items carry: one source, one field.
BatchLogs ==
  { FirewallLog("fortinet.firewall", "10.0.0.1", 0, v, 0, 0) : v \in Vals }

\* A list item is a string; json.Unmarshal either fills a FirewallLog from
\* it or fails.
Items == [log : BatchLogs, valid : BOOLEAN]

Unmarshal(item) ==
  IF item.valid THEN [err |-> FALSE, log |-> item.log]
  ELSE [err |-> TRUE, log |-> item.log]

Batches == UNION { [1..n -> Items] : n \in 0..MaxBatch }

RECURSIVE decodeUntilBad(_)
\* the decoding loop giving up at the first item that fails
decodeUntilBad(result) ==
  IF result = << >> THEN << >>
  ELSE IF Unmarshal(Head(result)).err THEN << >>
       ELSE << Unmarshal(Head(result)).log >> \o decodeUntilBad(Tail(result))

RECURSIVE decode(_)
\* the decoding loop of readLogsFromRedis: an item that fails is left out
decode(result) ==
  IF result = << >> THEN << >>
  ELSE IF Unmarshal(Head(result)).err THEN decode(Tail(result))
       ELSE << Unmarshal(Head(result)).log >> \o decode(Tail(result))

\* readLogsFromRedis that hides a failure of LRange
readLogsFromRedisNoError(lrange) ==
  [err |-> FALSE, logs |-> decode(lrange.result)]

readLogsFromRedis(lrange) ==
  IF lrange.err THEN [err |-> TRUE, logs |-> << >>]
  ELSE [err |-> FALSE, logs |-> decode(lrange.result)]

\* Process up to its loop: the list is read and decoded, or the failure
\* of the read is returned.
ProcessCall(c, lrange) ==
  /\ ~running[c]
  /\ pc[c] = "idle"
  /\ calls[c] < MaxCalls
  /\ calls' = [calls EXCEPT ![c] = @ + 1]
  /\ items' = [items EXCEPT ![c] = lrange]
  /\ decoded' = decoded
       + Cardinality({ i \in DOMAIN lrange.result : lrange.result[i].valid })
  /\ LET read == readLogsFromRedis(lrange)
     IN IF read.err
        THEN /\ returned' = [returned EXCEPT ![c] = Returned(<< >>, TRUE)]
             /\ UNCHANGED << running, logs, results >>
        ELSE /\ running' = [running EXCEPT ![c] = TRUE]
             /\ logs' = [logs EXCEPT ![c] = read.logs]
             /\ results' = [results EXCEPT ![c] = << >>]
             /\ UNCHANGED returned
  /\ UNCHANGED << scoreThreshold, now, windows, heap, processedLogs,
                  anomaliesDetected, windowsCreated, pc, windowKey,
                  metricField, metricValue, originIP, logTime, window,
                  seenValues, pending, features, anomalyScore, keyOf,
                  emitted, upserts, origins, noSource, handed,
                  anomalousEmitted, flushedMean >>

\* The loop of Process takes the next decoded record.
ProcessNextLog(c) ==
  /\ running[c]
  /\ logs[c] # << >>
  /\ ProcessLogStart(c, Head(logs[c]))
  /\ logs' = [logs EXCEPT ![c] = Tail(@)]
  /\ UNCHANGED << running, results, returned, items, decoded, calls >>

\* processLog returned a Decision: the loop appends it to the results.
ProcessAppend(c) ==
  /\ running[c]
  /\ ClearAndReturn(c)
  /\ results' = [results EXCEPT ![c] = Append(@, pending[c])]
  /\ UNCHANGED << running, logs, returned, items, decoded, calls >>

\* The loop is over: Process returns the results.
ProcessReturn(c) ==
  /\ running[c]
  /\ pc[c] = "idle"
  /\ logs[c] = << >>
  /\ running' = [running EXCEPT ![c] = FALSE]
  /\ returned' = [returned EXCEPT ![c] = Returned(results[c], FALSE)]
  /\ results' = [results EXCEPT ![c] = << >>]
  /\ UNCHANGED << logs, items, decoded, calls >>
  /\ UNCHANGED << scoreThreshold, now, windows, heap, processedLogs,
                  anomaliesDetected, windowsCreated, pc, windowKey,
                  metricField, metricValue, originIP, logTime, window,
                  seenValues, pending, features, anomalyScore, keyOf,
                  emitted, upserts, origins, noSource, handed,
                  anomalousEmitted, flushedMean >>

NextProcess ==
  \/ Tick
  \/ \E c \in Readers : ProcessCall(c, LRange(<< >>, TRUE))
  \/ \E c \in Readers : \E result \in Batches :
       ProcessCall(c, LRange(result, FALSE))
  \/ \E c \in Readers : ProcessNextLog(c)
  \/ \E c \in Readers : CheckWindow(c)
  \/ \E c \in Readers : ReadValues(c)
  \/ \E c \in Readers : BuildResult(c)
  \/ \E c \in Readers : ProcessAppend(c)
  \/ \E c \in Readers : ProcessReturn(c)

SpecProcess == Init /\ [][NextProcess]_vars

\* ----------------------------------------- extractFeatures on any window ----
\* As the unit tests do (TestFeatureExtraction, TestFeatureExtractionEmptyWindow):
\* a detector with no store, a WindowData built by hand, and a caller that
\* runs processLog on it from extractFeatures to the return of the Decision.
MaxSamples == 3
FeatureVals == {-3, 0, 2}
Baselines == {-25, 0, 25}
ScoreThresholds == {5, defaultScoreThreshold}   \* score_threshold 0.5, 0.7

RECURSIVE SeqsUpTo(_, _)
SeqsUpTo(S, n) ==
  IF n = 0 THEN {<< >>}
  ELSE LET shorter == SeqsUpTo(S, n - 1)
       IN shorter \cup {Append(q, v) : q \in {r \in shorter : Len(r) = n - 1}, v \in S}

\* window of TestFeatureExtraction
TestWindow ==
  WindowData(<< 10, 20, 30, 40, 50 >>,
             {"192.168.1.1", "192.168.1.2", "192.168.1.3"}, 25, 0, 1)

HandMadeWindows ==
  {TestWindow} \cup
  { WindowData(vals, ips, lastMean, 0, 1) :
      vals \in SeqsUpTo(FeatureVals, MaxSamples), ips \in SUBSET IPAddrs,
      lastMean \in Baselines }

InitFeatures ==
  /\ scoreThreshold \in ScoreThresholds
  /\ now = 0
  /\ windows = << >>
  /\ heap \in {<< w >> : w \in HandMadeWindows}
  /\ processedLogs = 0
  /\ anomaliesDetected = 0
  /\ windowsCreated = 0
  /\ pc = [c \in Callers |-> IF c = "t1" THEN "extract" ELSE "idle"]
  /\ windowKey = [c \in Callers |-> IF c = "t1" THEN "fortinet.firewall" ELSE ""]
  /\ metricField = [c \in Callers |-> IF c = "t1" THEN "connection_count" ELSE ""]
  /\ metricValue = [c \in Callers |-> 0]
  /\ originIP = [c \in Callers |-> ""]
  /\ logTime = [c \in Callers |-> 0]
  /\ window = [c \in Callers |-> IF c = "t1" THEN 1 ELSE Nil]
  /\ seenValues = [c \in Callers |-> NoValues]
  /\ pending = [c \in Callers |-> Nil]
  /\ features = [c \in Callers |-> Nil]
  /\ anomalyScore = [c \in Callers |-> 0]
  /\ keyOf = << "fortinet.firewall" >>
  /\ emitted = << 0 >>
  /\ upserts = [k \in LogSources |-> NoValues]
  /\ origins = [k \in LogSources |-> {}]
  /\ noSource = 0
  /\ handed = 0
  /\ anomalousEmitted = 0
  /\ flushedMean = [k \in LogSources |-> NoMean]
  /\ NoProcess

NextFeatures ==
  \/ \E c \in Callers : ReadValues(c)
  \/ \E c \in Callers : BuildResult(c)
  \/ \E c \in Callers : TakeResult(c)

SpecFeatures == InitFeatures /\ [][NextFeatures]_vars


\* ------------------------------------------ scoreAnomaly on any features ----
\* As TestAnomalyScoring does: feature maps built by hand, each handed to
\* scoreAnomaly by a caller of a detector whose threshold is 0.7.  The values
\* are those of the test (10, 75; 1.5, 4; 5, 15 against 10; 50, 150), the
\* bounds themselves, a negative change and a NaN deviation.
PercentChanges == {Rat(-75, 1), Rat(10, 1), Rat(50, 1), Rat(75, 1)}
PeakRatios     == {Rat(3, 2), Rat(3, 1), Rat(4, 1)}
StdDevs        == {Root(Rat(25, 1)), Root(Rat(100, 1)), Root(Rat(225, 1)), NaN}
IPCounts       == {50, 100, 150}

FeatureMap(percentChange, peakToMeanRatio, stdDev, mean, uniqueIPs) ==
  [mean_value |-> mean, std_dev |-> stdDev, max_value |-> 0, min_value |-> 0,
   percent_change |-> percentChange, unique_ips |-> uniqueIPs,
   peak_to_mean_ratio |-> peakToMeanRatio]

FeatureMaps ==
  { FeatureMap(p, r, sd, Rat(10, 1), n) :
      p \in PercentChanges, r \in PeakRatios, sd \in StdDevs, n \in IPCounts }

normalFeatures    == FeatureMap(Rat(10, 1), Rat(3, 2), Root(Rat(25, 1)), Rat(10, 1), 50)
anomalousFeatures == FeatureMap(Rat(75, 1), Rat(4, 1), Root(Rat(225, 1)), Rat(10, 1), 150)

InitScore ==
  /\ scoreThreshold = defaultScoreThreshold
  /\ now = 0
  /\ windows = << >>
  /\ heap = << >>
  /\ processedLogs = 0
  /\ anomaliesDetected = 0
  /\ windowsCreated = 0
  /\ pc = [c \in Callers |-> "score"]
  /\ windowKey = [c \in Callers |-> ""]
  /\ metricField = [c \in Callers |-> ""]
  /\ metricValue = [c \in Callers |-> 0]
  /\ originIP = [c \in Callers |-> ""]
  /\ logTime = [c \in Callers |-> 0]
  /\ window = [c \in Callers |-> Nil]
  /\ seenValues = [c \in Callers |-> NoValues]
  /\ pending = [c \in Callers |-> Nil]
  /\ features \in [Callers -> FeatureMaps]
  /\ anomalyScore = [c \in Callers |-> 0]
  /\ keyOf = << >>
  /\ emitted = << >>
  /\ upserts = [k \in LogSources |-> NoValues]
  /\ origins = [k \in LogSources |-> {}]
  /\ noSource = 0
  /\ handed = 0
  /\ anomalousEmitted = 0
  /\ flushedMean = [k \in LogSources |-> NoMean]
  /\ NoProcess

\* score := detector.scoreAnomaly(features)
ScoreFeatures(c) ==
  /\ pc[c] = "score"
  /\ anomalyScore' = [anomalyScore EXCEPT ![c] = scoreAnomaly(features[c])]
  /\ pc' = [pc EXCEPT ![c] = "scored"]
  /\ UNCHANGED << scoreThreshold, now, windows, heap, processedLogs,
                  anomaliesDetected, windowsCreated, windowKey, metricField,
                  metricValue, originIP,
                  logTime, window, seenValues, pending,
                  features, keyOf, emitted, upserts, origins, noSource,
                  handed, anomalousEmitted, flushedMean >>
  /\ UNCHANGED batchVars

NextScore == \E c \in Callers : ScoreFeatures(c)

SpecScore == InitScore /\ [][NextScore]_vars

\* ------------------------------------------------------- step names ----
\* c passes from updateWindow to the completeness test, returns "nil, nil",
\* or returns a Decision (pending[c]).
Upserted(c)  == pc[c] = "idle" /\ pc'[c] = "check"
Emits(c)     == pc[c] = "clear" /\ pc'[c] = "idle"

\* ======================================================== the claims ====

\* C1: when several callers process records of one key while its window is
\* flush-eligible, one of them emits a Decision for that window and no
\* window is ever turned into two Decisions.
C1_OneDecisionPerWindow ==
  \A a \in DOMAIN emitted : emitted[a] <= 1

\* C2: N updateWindow calls for one key with no clearWindow in between
\* leave one window for the key whose samples are exactly the N values, one
\* per call, whatever the interleaving of the callers.
C2_NoLostUpdates ==
  \A k \in LogSources :
    upserts[k] # NoValues =>
      /\ k \in DOMAIN windows
      /\ heap[windows[k]].Values = upserts[k]

C2_Witness ==
  \E k \in DOMAIN windows :
    /\ Len(upserts[k]) >= 2
    /\ \A c \in Callers : pc[c] = "check" /\ windowKey[c] = k

\* C3: between the getWindow of a caller and the end of its feature
\* extraction no step changes the window it reads.
C3_SnapshotStable ==
  [][\A c \in Callers :
       pc[c] \in {"extract", "build"} => heap'[window[c]] = heap[window[c]]]_vars

\* C4: after clearWindow(key) the key has no window, and the next
\* updateWindow(key, v, ip, t) creates a new object with samples [v], IP set
\* {ip}, start t, end t + duration and baseline 0.
C4_ClearThenFresh ==
  [][\A c \in Callers :
       /\ Emits(c) => windowKey[c] \notin DOMAIN windows'
       /\ (Upserted(c) /\ windowKey'[c] \notin DOMAIN windows)
          => /\ windowKey'[c] \in DOMAIN windows'
             /\ windows'[windowKey'[c]] \notin DOMAIN heap
             /\ heap'[windows'[windowKey'[c]]] =
                  WindowData(<< metricValue'[c] >>, {originIP'[c]}, 0,
                             logTime'[c], logTime'[c] + windowSeconds)]_vars

\* a window of a key whose earlier window was cleared after a Decision
C4_Witness ==
  \E k \in DOMAIN windows :
    \E b \in DOMAIN keyOf :
      b < windows[k] /\ keyOf[b] = k /\ emitted[b] >= 1

\* C5 as stated: the caller goes on to flush exactly when the time elapsed
\* since the window's end strictly exceeds the duration.
C5_FlushIffElapsedExceeds ==
  [][\A c \in Callers :
       (pc[c] = "check" /\ pc'[c] # "check" /\ getWindow(windowKey[c]) # Nil)
       => (pc'[c] = "extract"
             <=> now - heap[getWindow(windowKey[c])].EndTime > windowSeconds)]_vars

\* C5 amended: the caller goes on to flush exactly when the time elapsed
\* since the window's end is at least the duration; otherwise it returns
\* without a Decision and the window stays in the store.
C5_FlushIffElapsedAtLeast ==
  [][\A c \in Callers :
       (pc[c] = "check" /\ pc'[c] # "check" /\ getWindow(windowKey[c]) # Nil)
       => /\ pc'[c] = "extract"
               <=> now - heap[getWindow(windowKey[c])].EndTime >= windowSeconds
          /\ pc'[c] = "idle" => (windows' = windows /\ emitted' = emitted)]_vars

\* a caller that goes on to flush with elapsed time equal to the duration
C5_Witness ==
  \E c \in Callers :
    /\ pc[c] = "extract"
    /\ now - heap[window[c]].EndTime = windowSeconds

\* C6: the window of key K leaves the store, and a Decision for K is
\* returned, only in the processing of a record of K; the passing of time
\* and the records of other keys leave it where it is.
C6_FlushOnlyByOwnRecord ==
  [][/\ \A k \in DOMAIN windows :
          k \notin DOMAIN windows'
          => \E c \in Callers : Emits(c) /\ windowKey[c] = k
     /\ \A a \in DOMAIN emitted :
          emitted'[a] # emitted[a]
          => \E c \in Callers : Emits(c) /\ windowKey[c] = keyOf[a]
     /\ now' # now => windows' = windows]_vars

\* an overdue window still in the store while no call is running and
\* another key has a window
C6_Witness ==
  /\ \A c \in Callers : pc[c] = "idle"
  /\ \E k, k2 \in DOMAIN windows :
       /\ k # k2
       /\ now - heap[windows[k]].EndTime > windowSeconds

\* C7: a record whose source is mapped to an unrecognised field name is
\* upserted with the value 0: its window gains one sample 0 and its origin.
C7_UnknownFieldCountsAsZero ==
  [][\A c \in Callers : \A l \in Logs :
       (processedLogs' # processedLogs
          /\ l.LogSource \in DOMAIN sources
          /\ sources[l.LogSource] \notin MetricFields
          /\ ProcessLogStart(c, l))
       => /\ l.LogSource \in DOMAIN windows'
          /\ heap'[windows'[l.LogSource]].Values =
               Append(IF l.LogSource \in DOMAIN windows
                      THEN heap[windows[l.LogSource]].Values ELSE NoValues, 0)
          /\ l.SourceIP \in heap'[windows'[l.LogSource]].IPs]_vars

\* C8: a record whose source has no mapping is dropped: the call returns
\* at once with no Decision, no window is created or changed, and the
\* windows-created and anomalies-detected counters keep their values.
C8_UnmappedSourceDropped ==
  [][noSource' # noSource
       => /\ pc' = pc
          /\ windows' = windows
          /\ heap' = heap
          /\ emitted' = emitted
          /\ windowsCreated' = windowsCreated
          /\ anomaliesDetected' = anomaliesDetected]_vars

C8_Witness ==
  /\ noSource > 0
  /\ \A c \in Callers : pc[c] = "idle"
  /\ windows = << >>

\* C9: a Decision for a key whose previous Decision had mean m > 0 reports
\* percent_change = (m' - m) / m * 100, m' being its own mean.
C9_PercentChangeFromPreviousWindow ==
  [][\A c \in Callers :
       (Emits(c) /\ flushedMean[windowKey[c]] # NoMean
          /\ emitted[window[c]] = 0)
       => LET m  == flushedMean[windowKey[c]]
              m2 == pending[c].features.mean_value
          IN m.num > 0
             => RatEq(pending[c].features.percent_change,
                      Rat(100 * (m2.num * m.den - m.num * m2.den),
                          m.num * m2.den))]_vars


\* n^2 times the sum of the squared deviations from the mean sum/n
RECURSIVE ScaledSquaredDeviations(_, _, _)
ScaledSquaredDeviations(x, n, sum) ==
  IF x = << >> THEN 0
  ELSE (n * Head(x) - sum) * (n * Head(x) - sum)
       + ScaledSquaredDeviations(Tail(x), n, sum)

\* the features a caller has computed, and the samples they come from
Extracted(c) == pc[c] = "clear"

\* C10 as stated: std_dev is the population standard deviation, the root of
\* the squared deviations from the mean divided by n; 0 for one sample.
C10_StdDevIsPopulation ==
  \A c \in Callers :
    (Extracted(c) /\ Len(seenValues[c]) >= 1)
    => LET x  == seenValues[c]
           n  == Len(x)
           sd == pending[c].features.std_dev
       IN /\ ~sd.nan
          /\ sd.sq.num * n * n * n
               = sd.sq.den * ScaledSquaredDeviations(x, n, Sum(x))

\* C10 amended: for two samples or more std_dev is the sample standard
\* deviation, the root of the squared deviations from the mean divided by
\* n - 1; for one sample the divisor is 0 and std_dev is NaN.
C10_StdDevIsSample ==
  \A c \in Callers :
    (Extracted(c) /\ Len(seenValues[c]) >= 1)
    => LET x  == seenValues[c]
           n  == Len(x)
           sd == pending[c].features.std_dev
       IN /\ n = 1 => sd.nan
          /\ n >= 2 =>
               /\ ~sd.nan
               /\ sd.sq.num * n * n * (n - 1)
                    = sd.sq.den * ScaledSquaredDeviations(x, n, Sum(x))

\* the window of TestFeatureExtraction: std_dev 15.811388300841896, the
\* root of 250
C10_Witness ==
  \E c \in Callers :
    /\ Extracted(c)
    /\ seenValues[c] = << 10, 20, 30, 40, 50 >>
    /\ RatEq(pending[c].features.std_dev.sq, Rat(250, 1))

\* the weight of each trigger condition, in tenths
TriggerWeights ==
  [percent_change |-> 3, peak_to_mean_ratio |-> 2, std_dev |-> 2,
   unique_ips |-> 3]

\* the trigger conditions that hold for a feature map
Triggered(fm) ==
  { t \in DOMAIN TriggerWeights :
      CASE t = "percent_change" ->
             \/ fm.percent_change.num > 50 * fm.percent_change.den
             \/ -fm.percent_change.num > 50 * fm.percent_change.den
        [] t = "peak_to_mean_ratio" ->
             fm.peak_to_mean_ratio.num > 3 * fm.peak_to_mean_ratio.den
        [] t = "std_dev" ->
             /\ ~fm.std_dev.nan
             /\ \/ fm.mean_value.num < 0
                \/ fm.std_dev.sq.num * fm.mean_value.den * fm.mean_value.den
                     > fm.mean_value.num * fm.mean_value.num * fm.std_dev.sq.den
        [] OTHER -> fm.unique_ips > 100 }

RECURSIVE WeightOf(_)
WeightOf(T) ==
  IF T = {} THEN 0
  ELSE LET t == CHOOSE x \in T : TRUE
       IN TriggerWeights[t] + WeightOf(T \ {t})

\* a feature map with every feature exactly at its bound
AtBounds(fm) ==
  /\ RatEq(fm.percent_change, Rat(50, 1))
  /\ RatEq(fm.peak_to_mean_ratio, Rat(3, 1))
  /\ ~fm.std_dev.nan
  /\ fm.std_dev.sq.num * fm.mean_value.den * fm.mean_value.den
       = fm.mean_value.num * fm.mean_value.num * fm.std_dev.sq.den
  /\ fm.unique_ips = 100

Scored(c) == pc[c] = "scored"

\* C11: the score is the sum of the weights of the trigger conditions that
\* hold (0.3 for |percent_change| > 50, 0.2 for peak_to_mean_ratio > 3, 0.2
\* for std_dev > mean_value, 0.3 for unique_ips > 100), capped at 1; a
\* feature exactly at its bound adds nothing; all four conditions give at
\* least 0.7 and none gives less than 0.7.
C11_ScoreIsWeightSum ==
  \A c \in Callers :
    Scored(c) =>
      LET held == Triggered(features[c])
          sum  == WeightOf(held)
      IN /\ anomalyScore[c] = IF sum > 10 THEN 10 ELSE sum
         /\ AtBounds(features[c]) => anomalyScore[c] = 0
         /\ held = DOMAIN TriggerWeights => anomalyScore[c] >= 7
         /\ held = {} => anomalyScore[c] < 7

\* one caller has scored a map with every feature at its bound, the other
\* the anomalous map of the unit test
C11_Witness ==
  \E c, d \in Callers :
    /\ Scored(c) /\ AtBounds(features[c]) /\ anomalyScore[c] = 0
    /\ Scored(d) /\ features[d] = anomalousFeatures /\ anomalyScore[d] = 10


\* C12: every score lies in [0, 1], and a feature map for which at least
\* the trigger conditions of another map hold scores at least as much.
C12_ScoreBoundedMonotone ==
  /\ \A c \in Callers :
       Scored(c) => anomalyScore[c] >= 0 /\ anomalyScore[c] <= 10
  /\ \A c, d \in Callers :
       (Scored(c) /\ Scored(d)
          /\ Triggered(features[c]) \subseteq Triggered(features[d]))
       => anomalyScore[c] <= anomalyScore[d]

\* two scored maps, the conditions of one a proper non-empty part of the
\* conditions of the other, and the scores strictly apart
C12_Witness ==
  \E c, d \in Callers :
    /\ Scored(c) /\ Scored(d)
    /\ Triggered(features[c]) # {}
    /\ Triggered(features[c]) \subseteq Triggered(features[d])
    /\ Triggered(features[c]) # Triggered(features[d])
    /\ anomalyScore[c] < anomalyScore[d]


\* C13: in every Decision is_anomaly is true exactly when anomaly_score is
\* at least the configured threshold; a score equal to the threshold is
\* anomalous.
C13_AnomalyIffAtLeastThreshold ==
  \A c \in Callers :
    Extracted(c) =>
      /\ pending[c].anomaly_score = anomalyScore[c]
      /\ pending[c].is_anomaly <=> pending[c].anomaly_score >= scoreThreshold
      /\ pending[c].anomaly_score = scoreThreshold => pending[c].is_anomaly

\* a Decision whose score equals the threshold, classified as anomalous
C13_Witness ==
  \E c \in Callers :
    /\ Extracted(c)
    /\ pending[c].anomaly_score = scoreThreshold
    /\ pending[c].is_anomaly

\* C14: every Decision carries one topic: the anomaly topic exactly when
\* is_anomaly is true, the normal topic otherwise.
C14_RoutedByClassification ==
  \A c \in Callers :
    Extracted(c) =>
      /\ pending[c].topic = anomalyTopic <=> pending[c].is_anomaly
      /\ pending[c].topic = normalTopic <=> ~pending[c].is_anomaly

\* an anomalous Decision above the threshold on its way to the anomaly topic
C14_Witness ==
  \E c \in Callers :
    /\ Extracted(c)
    /\ pending[c].anomaly_score > scoreThreshold
    /\ pending[c].topic = anomalyTopic
    /\ pending[c].topic # normalTopic


\* C15: the anomalies-detected counter is the number of anomalous Decisions:
\* those already returned plus those built and about to be returned; once
\* every call has returned it is the number of Decisions returned with
\* is_anomaly true.  Records without a Decision and normal Decisions leave
\* it alone.
C15_AnomaliesCounted ==
  /\ anomaliesDetected =
       anomalousEmitted
         + Cardinality({c \in Callers : Extracted(c) /\ pending[c].is_anomaly})
  /\ (\A c \in Callers : pc[c] = "idle") => anomaliesDetected = anomalousEmitted

\* every call has returned, anomalous Decisions were returned, and a record
\* was buffered without a Decision
C15_Witness ==
  /\ \A c \in Callers : pc[c] = "idle"
  /\ anomalousEmitted >= 1
  /\ anomaliesDetected = anomalousEmitted
  /\ handed > anomalousEmitted


\* C16: the records-processed counter is the number of records handed to
\* processLog, each counted once, whether the record was dropped for a
\* missing mapping or an unknown metric field, buffered, or flushed.
C16_EveryRecordCounted ==
  processedLogs = handed

\* two records counted: one dropped for a missing mapping, one buffered
C16_Witness ==
  /\ \A c \in Callers : pc[c] = "idle"
  /\ processedLogs >= 2
  /\ noSource = 1
  /\ windows # << >>


\* C17: the windows-created counter grows by one in exactly the steps in
\* which a key passes from no window to an open window, and in no other
\* step: not in an upsert into an existing window, and once when several
\* callers upsert an absent key at the same time.
C17_CreatedCountsOpenings ==
  [][windowsCreated' =
       windowsCreated + Cardinality(DOMAIN windows' \ DOMAIN windows)]_vars

\* both callers have upserted into a key that had no window, and one window
\* was counted
C17_Witness ==
  /\ windowsCreated = 1
  /\ \E k \in DOMAIN windows :
       /\ Len(heap[windows[k]].Values) = 2
       /\ \A c \in Callers : pc[c] = "check" /\ windowKey[c] = k

\* C18: the IP set of a window is the set of the origins upserted into it:
\* an origin upserted twice is in it once and two distinct origins make a
\* set of size 2, while the samples grow by one with every upsert.
C18_OriginsAreASet ==
  \A k \in LogSources :
    upserts[k] # NoValues =>
      /\ k \in DOMAIN windows
      /\ heap[windows[k]].IPs = origins[k]
      /\ Cardinality(heap[windows[k]].IPs) <= Len(upserts[k])
      /\ Len(heap[windows[k]].Values) = Len(upserts[k])

\* a window with two samples, both from one origin
C18_Witness ==
  \E k \in DOMAIN windows :
    /\ Len(heap[windows[k]].Values) = 2
    /\ Len(upserts[k]) = 2
    /\ Cardinality(heap[windows[k]].IPs) = 1

FeatureKeys ==
  {"mean_value", "std_dev", "max_value", "min_value", "percent_change",
   "unique_ips", "peak_to_mean_ratio"}

\* C19: the feature map has exactly the seven keys mean_value, std_dev,
\* max_value, min_value, percent_change, unique_ips and peak_to_mean_ratio
\* for every window, and all seven are 0 for a window with no samples.
C19_SevenFeatures ==
  \A c \in Callers :
    Extracted(c) =>
      LET fm == pending[c].features
      IN /\ DOMAIN fm = FeatureKeys
         /\ seenValues[c] = NoValues =>
              /\ fm.mean_value.num = 0 /\ fm.mean_value.den # 0
              /\ ~fm.std_dev.nan /\ fm.std_dev.sq.num = 0
              /\ fm.max_value = 0
              /\ fm.min_value = 0
              /\ fm.percent_change.num = 0 /\ fm.percent_change.den # 0
              /\ fm.unique_ips = 0
              /\ fm.peak_to_mean_ratio.num = 0
              /\ fm.peak_to_mean_ratio.den # 0

\* the features of a window without samples that has origins and a baseline
C19_Witness ==
  \E c \in Callers :
    /\ Extracted(c)
    /\ seenValues[c] = NoValues
    /\ heap[window[c]].IPs # {}
    /\ heap[window[c]].LastMean > 0

\* den times the sum of the deviations of the samples from num / den
RECURSIVE ScaledDeviations(_, _, _)
ScaledDeviations(x, num, den) ==
  IF x = << >> THEN 0
  ELSE (den * Head(x) - num) + ScaledDeviations(Tail(x), num, den)

\* C20: for a window with at least one sample mean_value is the sum of the
\* samples divided by their count (the deviations from it cancel),
\* max_value is a sample no other exceeds and min_value a sample none is
\* below.
C20_MeanMaxMin ==
  \A c \in Callers :
    (Extracted(c) /\ Len(seenValues[c]) >= 1)
    => LET x  == seenValues[c]
           fm == pending[c].features
       IN /\ fm.mean_value.den # 0
          /\ ScaledDeviations(x, fm.mean_value.num, fm.mean_value.den) = 0
          /\ \E i \in DOMAIN x : x[i] = fm.max_value
          /\ \A i \in DOMAIN x : x[i] <= fm.max_value
          /\ \E i \in DOMAIN x : x[i] = fm.min_value
          /\ \A i \in DOMAIN x : x[i] >= fm.min_value

\* the window of TestFeatureExtraction: mean 30, max 50, min 10
C20_Witness ==
  \E c \in Callers :
    /\ Extracted(c)
    /\ seenValues[c] = << 10, 20, 30, 40, 50 >>
    /\ RatEq(pending[c].features.mean_value, Rat(30, 1))
    /\ pending[c].features.max_value = 50
    /\ pending[c].features.min_value = 10


C22_PeakToMean ==
  \A c \in Callers :
    Extracted(c)
    => LET fm    == pending[c].features
           m     == fm.mean_value
           ratio == fm.peak_to_mean_ratio
       IN /\ ratio.den # 0
          /\ m.num > 0 => ratio.num * m.num = fm.max_value * m.den * ratio.den
          /\ m.num <= 0 => ratio.num = 0

\* a window with a positive peak and a negative mean: ratio 0
C22_Witness ==
  \E c \in Callers :
    /\ Extracted(c)
    /\ pending[c].features.mean_value.num < 0
    /\ pending[c].features.max_value > 0
    /\ pending[c].features.peak_to_mean_ratio.num = 0


C24_MetricValueIsLastSample ==
  \A c \in Callers :
    (Extracted(c) /\ seenValues[c] # NoValues)
    => pending[c].metric_value = seenValues[c][Len(seenValues[c])]


\* C27: a caller that flushes has upserted before: when the window it got
\* from getWindow passes the completeness test, the sample and the origin
\* of its record are in that window, the window its Decision is computed
\* from.
C27_OwnRecordInFlushedWindow ==
  [][\A c \in Callers :
       (pc[c] = "check" /\ pc'[c] = "extract") =>
         /\ \E i \in DOMAIN heap[window'[c]].Values :
              heap[window'[c]].Values[i] = metricValue[c]
         /\ originIP[c] \in heap[window'[c]].IPs]_vars

\* C28: while a window stays in the store it only grows: the window of a
\* key is replaced only after the key was cleared, every step keeps the
\* samples it had as a prefix and keeps its IPs, and an upsert into it adds
\* exactly one sample, the record's, at the end.
C28_WindowOnlyGrows ==
  [][/\ \A k \in DOMAIN windows \cap DOMAIN windows' :
          /\ windows'[k] = windows[k]
          /\ Len(heap'[windows[k]].Values) >= Len(heap[windows[k]].Values)
          /\ SubSeq(heap'[windows[k]].Values, 1, Len(heap[windows[k]].Values))
               = heap[windows[k]].Values
          /\ heap[windows[k]].IPs \subseteq heap'[windows[k]].IPs
     /\ \A c \in Callers :
          (Upserted(c) /\ windowKey'[c] \in DOMAIN windows)
          => heap'[windows[windowKey'[c]]].Values =
               Append(heap[windows[windowKey'[c]]].Values, metricValue'[c])]_vars

\* a stored window that has grown: several samples from several origins
C28_Witness ==
  \E k \in DOMAIN windows :
    /\ Len(heap[windows[k]].Values) >= 2
    /\ Cardinality(heap[windows[k]].IPs) >= 2

\* C29: every window in the store ends no earlier than it starts, whatever
\* the order of the record timestamps.
C29_EndNotBeforeStart ==
  \A k \in DOMAIN windows :
    heap[windows[k]].EndTime >= heap[windows[k]].StartTime

\* a caller has just upserted a record older than the start of the window
\* it went into
C29_Witness ==
  \E c \in Callers :
    /\ pc[c] = "check"
    /\ windowKey[c] \in DOMAIN windows
    /\ logTime[c] < heap[windows[windowKey[c]]].StartTime
    /\ Len(heap[windows[windowKey[c]]].Values) >= 2

\* C30: updateWindow on a key without a window stores a new window that
\* starts at the record's timestamp, ends one duration later, has baseline
\* 0, the record's value as its only sample and the record's origin as its
\* only IP; on a key with a window it keeps that window, its start and its
\* baseline.
C30_CreateOrReuse ==
  [][\A c \in Callers :
       Upserted(c) =>
         LET k == windowKey'[c]
         IN /\ k \in DOMAIN windows'
            /\ IF k \notin DOMAIN windows
               THEN /\ windows'[k] \notin DOMAIN heap
                    /\ heap'[windows'[k]] =
                         WindowData(<< metricValue'[c] >>, {originIP'[c]}, 0,
                                    logTime'[c], logTime'[c] + windowSeconds)
               ELSE /\ windows'[k] = windows[k]
                    /\ heap'[windows[k]].StartTime = heap[windows[k]].StartTime
                    /\ heap'[windows[k]].LastMean = heap[windows[k]].LastMean]_vars

\* a caller has just upserted a later record into a window that was open
C30_Witness ==
  \E c \in Callers :
    /\ pc[c] = "check"
    /\ windowKey[c] \in DOMAIN windows
    /\ heap[windows[windowKey[c]]].StartTime < logTime[c]
    /\ Len(heap[windows[windowKey[c]]].Values) >= 2


\* C25: a list item that fails to decode is skipped. The step that reads
\* the list changes no window and no counter and returns nothing, it leaves
\* exactly the decodable records, in their order, for processLog, and at
\* every moment the records processed and the records still waiting add up
\* to the items that decode: no bad item is ever processed and no good one
\* is dropped.
C25_BadRecordSkipped ==
  [][\A c \in Readers :
       /\ (calls'[c] = calls[c] + 1 /\ ~items'[c].err) =>
            LET good == SelectSeq(items'[c].result, LAMBDA it : it.valid)
            IN /\ running'[c]
               /\ logs'[c] = [i \in 1..Len(good) |-> good[i].log]
               /\ results'[c] = << >>
               /\ UNCHANGED << windows, heap, processedLogs,
                               anomaliesDetected, windowsCreated, returned >>
       /\ processedLogs' + Len(logs'[c]) = decoded'
       /\ (running[c] /\ ~running'[c]) =>
            /\ logs[c] = << >>
            /\ returned'[c] = Returned(results[c], FALSE)]_vars

\* Process has returned from a list whose first item does not decode and
\* whose second does, and that second record was processed
C25_Witness ==
  \E c \in Readers :
    /\ ~running[c]
    /\ ~items[c].err
    /\ Len(items[c].result) >= 2
    /\ ~items[c].result[1].valid
    /\ items[c].result[2].valid
    /\ processedLogs >= 1
    /\ windows # << >>

\* C26: when LRange fails, Process returns the failure and no Decision, and
\* the step changes no window and no counter.
C26_ReadFailureReturned ==
  [][\A c \in Readers :
       (calls'[c] = calls[c] + 1 /\ items'[c].err) =>
         /\ returned'[c] = Returned(<< >>, TRUE)
         /\ ~running'[c]
         /\ UNCHANGED << windows, heap, processedLogs, anomaliesDetected,
                         windowsCreated, logs, results, pc >>]_vars

\* a call of Process has failed at the read while a window was open
C26_Witness ==
  \E c \in Readers :
    /\ items[c].err
    /\ returned[c].err
    /\ returned[c].results = << >>
    /\ calls[c] >= 2
    /\ windows # << >>
    /\ processedLogs >= 1


\* C31: an upsert into an open window moves the window's end to the
\* record's timestamp plus the duration when the timestamp is after the
\* end, and leaves the end alone otherwise; no step makes the end of a
\* window that stays in the store earlier.
C31_EndExtendedByLaterRecord ==
  [][/\ \A c \in Callers :
          (Upserted(c) /\ windowKey'[c] \in DOMAIN windows) =>
            LET w == windows[windowKey'[c]]
            IN heap'[w].EndTime =
                 IF logTime'[c] > heap[w].EndTime
                 THEN logTime'[c] + windowSeconds
                 ELSE heap[w].EndTime
     /\ \A k \in DOMAIN windows \cap DOMAIN windows' :
          heap'[windows'[k]].EndTime >= heap[windows[k]].EndTime]_vars

\* a caller has just upserted a record later than the end of the open
\* window, and the end has moved
C31_Witness ==
  \E c \in Callers :
    /\ pc[c] = "check"
    /\ windowKey[c] \in DOMAIN windows
    /\ Len(heap[windows[windowKey[c]]].Values) >= 2
    /\ heap[windows[windowKey[c]]].EndTime = logTime[c] + windowSeconds
    /\ heap[windows[windowKey[c]]].EndTime >
         heap[windows[windowKey[c]]].StartTime + windowSeconds


C33_NoSampleLost ==
  [][\A c \in Callers :
       (Emits(c) /\ windowKey[c] \in DOMAIN windows) =>
         /\ windows[windowKey[c]] = window[c]
         /\ heap[windows[windowKey[c]]].Values = seenValues[c]
         /\ emitted[window[c]] = 0]_vars


\* The scores scoreAnomaly gives to feature vectors whose percent_change
\* is 0, the other three conditions met or not.
ScoresAtZeroChange ==
  { scoreAnomaly(FeatureMap(Zero, r, sd, Rat(10, 1), n)) :
      r \in PeakRatios, sd \in StdDevs, n \in IPCounts }

C35_FlushOnlyByOldRecord ==
  [][\A c \in Callers :
       /\ Upserted(c) =>
            heap'[windows'[windowKey'[c]]].EndTime >= logTime'[c]
       /\ (pc[c] = "check" /\ pc'[c] = "extract") =>
            logTime[c] + windowSeconds <= now]_vars


\* C36: every window in the store has at least one sample and at least
\* one origin, and no more origins than samples.
C36_NoEmptyWindowStored ==
  \A k \in DOMAIN windows :
    /\ Len(heap[windows[k]].Values) >= 1
    /\ Cardinality(heap[windows[k]].IPs) >= 1
    /\ Cardinality(heap[windows[k]].IPs) <= Len(heap[windows[k]].Values)

\* a stored window with more samples than origins: two records of one
\* origin
C36_Witness ==
  \E k \in DOMAIN windows :
    /\ Len(heap[windows[k]].Values) = 2
    /\ Cardinality(heap[windows[k]].IPs) = 1

\* C37: source keys are independent: a step changes the presence or the
\* content (samples, IPs, start, end, baseline) of the window of a key only
\* if it is the upsert or the clear of a caller processing a record of that
\* key.
C37_KeysIndependent ==
  [][\A k \in LogSources :
       (\/ (k \in DOMAIN windows) # (k \in DOMAIN windows')
        \/ /\ k \in DOMAIN windows
           /\ k \in DOMAIN windows'
           /\ \/ windows'[k] # windows[k]
              \/ heap'[windows'[k]] # heap[windows[k]])
       => \E c \in Callers :
            \/ Upserted(c) /\ windowKey'[c] = k
            \/ Emits(c) /\ windowKey[c] = k]_vars

\* a caller has just upserted a record of one key while another key has
\* a window
C37_Witness ==
  \E c \in Callers :
    \E k \in DOMAIN windows :
      /\ pc[c] = "check"
      /\ windowKey[c] \in DOMAIN windows
      /\ windowKey[c] # k
      /\ Len(heap[windows[windowKey[c]]].Values) = 1


====
